---- MODULE Spec2Model ----
(***************************************************************************)
(* Model of the insurance_llm query pipeline:                              *)
(*   document_processor.py  segmentation of extracted text into clauses    *)
(*   semantic_search.py     embedding calls and similarity ranking         *)
(*   decision_engine.py     completion call and tolerant JSON parsing      *)
(*   main.py                run_query, the per-request loop over questions *)
(*                                                                         *)
(* Texts are sequences of tokens, each token standing for a fixed piece of *)
(* text (tables below), so that splitting, trimming, length, substring     *)
(* tests and slicing are computed on them the way the code computes them   *)
(* on characters.  Similarities are integers in hundredths.                *)
(***************************************************************************)
EXTENDS Integers, Sequences, FiniteSets, TLC

VARIABLES
    pc,                 \* position: which step runs next, or which call is awaited
    authorization,      \* the request's Authorization header
    env_token,          \* the BEARER_TOKEN environment variable
    url,                \* request.documents
    body,               \* what the document holds: its pages, paragraphs or text
    text,               \* the text given to _extract_clauses
    questions,          \* request.questions
    frame,              \* locals of the suspended iteration of run_query
    documents_content,  \* result of process_document
    answers,            \* run_query's answers list
    http_status,        \* 0 while running; 200, 401 or 500 at the end
    failed,             \* per processed question: did a provider call fail
    embedCalls,         \* embedding calls made so far
    gptCalls,           \* completion calls made so far
    args,               \* inputs of the function under check
    ret                 \* its return value

vars == <<pc, authorization, env_token, url, body, text, questions, frame,
          documents_content, answers, http_status, failed, embedCalls, gptCalls, args, ret>>

NONE == "none"

(***************************************************************************)
(* Bounds of the model.                                                    *)
(***************************************************************************)
MaxTextLen == 5
MaxRawLen == 5
MaxDecideRawLen == 3
MaxRanked == 6
MaxClauses == 3
MaxQuestions == 2
MaxHeaderLen == 2

\* All sequences over S of length 0..n.
SeqsUpTo(S, n) == UNION {[1..k -> S] : k \in 0..n}

Min(a, b) == IF a < b THEN a ELSE b

\* Python slice s[:n] for n >= 0.
Prefix(s, n) == SubSeq(s, 1, Min(n, Len(s)))

(***************************************************************************)
(* document_processor.py                                                   *)
(***************************************************************************)

\* Tokens of document text.  "n" is a newline, "s" a space; the others are
\* these fixed pieces of text:
\*   A  "Section A covers knee surgery."                            (30 chars)
\*   B  "Section B excludes maternity for 9 months."                (42 chars)
\*   M  "Every insured member must stay within the annual limit."   (55 chars)
\*   L  "The maximum payable amount is five hundred dollars."       (51 chars)
\*   G  "This paragraph only greets the reader, nothing so."        (50 chars)
TextTokens == {"n", "s", "A", "B", "M", "L", "G"}

Whitespace == {"n", "s"}

\* len() of a token's text.
TokenLen(t) ==
    CASE t = "A" -> 30
      [] t = "B" -> 42
      [] t = "M" -> 55
      [] t = "L" -> 51
      [] t = "G" -> 50
      [] OTHER -> 1

\* The keywords of _classify_clause_type that occur in a token's lowercased text.
TokenKeywords(t) ==
    CASE t = "A" -> {"cover"}
      [] t = "B" -> {"exclude"}
      [] t = "M" -> {"must", "limit"}
      [] t = "L" -> {"maximum"}
      [] OTHER -> {}

RECURSIVE TextLen(_)
TextLen(s) == IF s = <<>> THEN 0 ELSE TokenLen(Head(s)) + TextLen(Tail(s))

\* str.strip(): leading and trailing whitespace removed.
RECURSIVE LStrip(_)
LStrip(s) == IF s # <<>> /\ Head(s) \in Whitespace THEN LStrip(Tail(s)) ELSE s

RECURSIVE RStrip(_)
RStrip(s) ==
    IF s # <<>> /\ s[Len(s)] \in Whitespace THEN RStrip(SubSeq(s, 1, Len(s) - 1)) ELSE s

Strip(s) == RStrip(LStrip(s))

\* End of the whitespace run that starts at position i.
RECURSIVE WsRunEnd(_, _)
WsRunEnd(s, i) ==
    IF i < Len(s) /\ s[i + 1] \in Whitespace THEN WsRunEnd(s, i + 1) ELSE i

\* For a newline at i: the end of the match of \n\s*\n that starts at i (the last
\* newline of the whitespace run, \s* being greedy), or i when there is no match.
MatchEnd(s, i) ==
    LET e == WsRunEnd(s, i)
        nl == {j \in i..e : s[j] = "n"}
    IN  CHOOSE j \in nl : \A k \in nl : k <= j

\* re.split(r'\n\s*\n', text): sections between the leftmost non-overlapping
\* matches, empty sections included.
RECURSIVE SplitSections(_, _, _)
SplitSections(s, i, cur) ==
    IF i > Len(s) THEN <<cur>>
    ELSE IF s[i] = "n" /\ MatchEnd(s, i) > i
         THEN <<cur>> \o SplitSections(s, MatchEnd(s, i) + 1, <<>>)
         ELSE SplitSections(s, i + 1, Append(cur, s[i]))

re_split(s) == SplitSections(s, 1, <<>>)

\* any(word in text_lower for word in words)
ContainsAny(section, words) ==
    \E i \in 1..Len(section) : TokenKeywords(section[i]) \cap words # {}

_classify_clause_type(section) ==
    IF ContainsAny(section, {"coverage", "cover", "policy"}) THEN "coverage"
    ELSE IF ContainsAny(section, {"exclusion", "exclude", "not covered"}) THEN "exclusion"
    ELSE IF ContainsAny(section, {"condition", "requirement", "must"}) THEN "condition"
    ELSE IF ContainsAny(section, {"limit", "maximum", "cap"}) THEN "limit"
    ELSE "general"

\* The noise filter of _extract_clauses: a section is kept when its trimmed
\* length exceeds this.
MinSectionLen == 50

\* Mutant: only empty sections are dropped.
KeepSectionNonEmpty(section) == TextLen(Strip(section)) > 0

\* len(section.strip()) > 50
KeepSection(section) == TextLen(Strip(section)) > MinSectionLen

\* The dict _extract_clauses appends for the section with (0-based) index i.  The
\* id field i stands for the string "clause_<i>".
ClauseOf(section, i) ==
    [id |-> i,
     content |-> Strip(section),
     length |-> TextLen(Strip(section)),
     type |-> _classify_clause_type(section)]

\* Mutant of the loop: the id counts the retained sections.
RECURSIVE ClausesFromRenumbered(_, _, _)
ClausesFromRenumbered(sections, i, kept) ==
    IF i >= Len(sections) THEN <<>>
    ELSE IF KeepSection(sections[i + 1])
         THEN <<ClauseOf(sections[i + 1], kept)>>
              \o ClausesFromRenumbered(sections, i + 1, kept + 1)
         ELSE ClausesFromRenumbered(sections, i + 1, kept)

\* The loop of _extract_clauses over enumerate(sections), from index i.
RECURSIVE ClausesFrom(_, _)
ClausesFrom(sections, i) ==
    IF i >= Len(sections) THEN <<>>
    ELSE IF KeepSection(sections[i + 1])
         THEN <<ClauseOf(sections[i + 1], i)>> \o ClausesFrom(sections, i + 1)
         ELSE ClausesFrom(sections, i + 1)

\* Mutant: ids renumbered over the retained sections.
_extract_clausesRenumbered(t) == ClausesFromRenumbered(re_split(t), 0, 0)

_extract_clauses(t) == ClausesFrom(re_split(t), 0)

\* "".join(parts)
RECURSIVE Concat(_)
Concat(parts) == IF parts = <<>> THEN <<>> ELSE Head(parts) \o Concat(Tail(parts))

\* The loops of _process_pdf and _process_docx: text_content += part + "\n".
RECURSIVE JoinLines(_)
JoinLines(parts) ==
    IF parts = <<>> THEN <<>> ELSE Head(parts) \o <<"n">> \o JoinLines(Tail(parts))

\* _get_file_extension.  A url is given by the extensions that occur in it.
_get_file_extension(u) ==
    IF ".pdf" \in u THEN ".pdf"
    ELSE IF ".docx" \in u THEN ".docx"
    ELSE IF ".doc" \in u THEN ".doc"
    ELSE ".txt"

\* _process_pdf on the texts of the document's pages.
_process_pdf(pages) ==
    [type |-> "pdf",
     content |-> JoinLines(pages),
     clauses |-> _extract_clauses(JoinLines(pages)),
     metadata |-> [pages |-> Len(pages),
                   extracted_text_length |-> TextLen(JoinLines(pages))]]

\* _process_docx on the texts of the document's paragraphs.
_process_docx(paragraphs) ==
    [type |-> "docx",
     content |-> JoinLines(paragraphs),
     clauses |-> _extract_clauses(JoinLines(paragraphs)),
     metadata |-> [paragraphs |-> Len(paragraphs),
                   extracted_text_length |-> TextLen(JoinLines(paragraphs))]]

\* _process_text on the decoded content.
_process_text(t) ==
    [type |-> "text",
     content |-> t,
     clauses |-> _extract_clauses(t),
     metadata |-> [extracted_text_length |-> TextLen(t)]]

\* process_document once the fetch has returned the document (lines 19..26).
process_document(u, b) ==
    IF _get_file_extension(u) = ".pdf" THEN _process_pdf(b)
    ELSE IF _get_file_extension(u) \in {".docx", ".doc"} THEN _process_docx(b)
    ELSE _process_text(Concat(b))

\* documents_content before process_document has returned.
NoDocument ==
    [type |-> "none", content |-> <<>>, clauses |-> <<>>,
     metadata |-> [extracted_text_length |-> 0]]

(***************************************************************************)
(* semantic_search.py                                                      *)
(***************************************************************************)

\* The names bound at module level in semantic_search.py: its imports, the
\* logger and the class.  Reading any other global name raises NameError.
SemanticSearchGlobals ==
    {"os", "np", "openai", "List", "Dict", "Any", "logging", "asyncio",
     "cosine_similarity", "logger", "SemanticSearch"}

\* Inner product of two embedding vectors (components in tenths, result in
\* hundredths), as faiss.IndexFlatIP computes it.
RECURSIVE InnerProduct(_, _)
InnerProduct(u, v) ==
    IF u = <<>> \/ v = <<>> THEN 0
    ELSE Head(u) * Head(v) + InnerProduct(Tail(u), Tail(v))

\* The k requested from index.search, and the similarity threshold (0.3).
TopK == 5
Threshold == 30

\* Insert pair p into a list ordered by descending similarity, after its equals.
RECURSIVE InsertDesc(_, _)
InsertDesc(lst, p) ==
    IF lst = <<>> THEN <<p>>
    ELSE IF p.similarity_score > Head(lst).similarity_score THEN <<p>> \o lst
    ELSE <<Head(lst)>> \o InsertDesc(Tail(lst), p)

\* sorted(xs, key=similarity_score, reverse=True): stable.
RECURSIVE SortedDesc(_)
SortedDesc(xs) ==
    IF xs = <<>> THEN <<>>
    ELSE InsertDesc(SortedDesc(SubSeq(xs, 1, Len(xs) - 1)), xs[Len(xs)])

\* index.search(question_vector, k) on a flat inner-product index holding
\* clause_vectors: the k best (similarity, idx) pairs, best first.
IndexSearch(q, vecs, k) ==
    Prefix(SortedDesc([i \in 1..Len(vecs) |->
                          [similarity_score |-> InnerProduct(q, vecs[i]), idx |-> i]]), k)

\* The loop over enumerate(zip(similarities[0], indices[0])), from position i.
RECURSIVE RankLoop(_, _, _)
RankLoop(found, clauses, i) ==
    IF i > Len(found) THEN <<>>
    ELSE IF found[i].similarity_score > Threshold
         THEN <<[id |-> clauses[found[i].idx].id,
                 content |-> clauses[found[i].idx].content,
                 length |-> clauses[found[i].idx].length,
                 type |-> clauses[found[i].idx].type,
                 similarity_score |-> found[i].similarity_score,
                 rank |-> i]>> \o RankLoop(found, clauses, i + 1)
         ELSE RankLoop(found, clauses, i + 1)

\* _find_similar_clauses.  The name faiss is read at line 73 and is bound nowhere
\* in the module, so that line raises NameError, which the except clause of
\* line 89 turns into the empty list.
_find_similar_clauses(question_embedding, clause_embeddings, clauses) ==
    IF clause_embeddings = <<>> THEN <<>>
    ELSE IF "faiss" \notin SemanticSearchGlobals THEN <<>>
    ELSE SortedDesc(RankLoop(IndexSearch(question_embedding, clause_embeddings,
                                         Min(TopK, Len(clauses))),
                             clauses, 1))

\* An embedding call's outcome is the provider's: a vector, or a failure.
EmbedFail == [ok |-> FALSE, vec |-> <<>>]
EmbedOk(v) == [ok |-> TRUE, vec |-> v]

\* Number of leading successful outcomes in a list of embedding outcomes.
RECURSIVE OkPrefixLen(_)
OkPrefixLen(es) ==
    IF es = <<>> \/ ~Head(es).ok THEN 0 ELSE 1 + OkPrefixLen(Tail(es))

\* search_clauses, with the provider's outcomes for the question (qe) and for
\* each clause (ces).  catch: whether the try/except of lines 21..39 is there.
\* The result carries the value returned (or raised), the number of embedding
\* calls made, and whether one of them failed.
SearchCore(question, document_data, qe, ces, catch) ==
    LET clauses == document_data.clauses
        n == Len(clauses)
        done == OkPrefixLen(ces)
    IN  IF clauses = <<>>
        THEN [raised |-> FALSE, value |-> <<>>, embed_calls |-> 0, provider_failed |-> FALSE]
        ELSE IF ~qe.ok
        THEN [raised |-> ~catch, value |-> <<>>, embed_calls |-> 1, provider_failed |-> TRUE]
        ELSE IF done < n
        THEN [raised |-> ~catch, value |-> <<>>, embed_calls |-> 1 + done + 1,
              provider_failed |-> TRUE]
        ELSE [raised |-> FALSE,
              value |-> _find_similar_clauses(qe.vec, [i \in 1..n |-> ces[i].vec], clauses),
              embed_calls |-> 1 + n, provider_failed |-> FALSE]

\* The loop of _batch_embeddings for a positive batch_size: one provider call
\* per batch of batch_size texts; outcomes[b] is the provider's outcome for
\* batch b, a list of vectors; a failed batch gives a zero vector of 1536
\* components for each of its texts.
RECURSIVE BatchLoop(_, _, _)
BatchLoop(texts, batch_size, outcomes) ==
    IF texts = <<>> THEN <<>>
    ELSE LET batch == Prefix(texts, batch_size)
         IN  (IF Head(outcomes).ok
              THEN Head(outcomes).vec
              ELSE [i \in 1..Len(batch) |-> [j \in 1..1536 |-> 0]])
             \o BatchLoop(SubSeq(texts, Len(batch) + 1, Len(texts)),
                          batch_size, Tail(outcomes))

\* _batch_embeddings (called nowhere).  range(0, len(texts), batch_size) at
\* line 95 is outside the try: a batch_size of 0 raises ValueError, whatever
\* the texts; a negative one gives an empty range, so no call is made and the
\* result is empty.  calls is the number of provider calls made.
_batch_embeddings(texts, batch_size, outcomes) ==
    IF batch_size = 0
    THEN [raised |-> TRUE, value |-> <<>>, calls |-> 0]
    ELSE IF batch_size < 0
    THEN [raised |-> FALSE, value |-> <<>>, calls |-> 0]
    ELSE [raised |-> FALSE,
          value |-> BatchLoop(texts, batch_size, outcomes),
          calls |-> (Len(texts) + batch_size - 1) \div batch_size]

\* Mutant: search_clauses without its try/except.
search_clausesNoCatch(question, document_data, qe, ces) ==
    SearchCore(question, document_data, qe, ces, FALSE)

search_clauses(question, document_data, qe, ces) ==
    SearchCore(question, document_data, qe, ces, TRUE)

(***************************************************************************)
(* decision_engine.py                                                      *)
(***************************************************************************)

\* Tokens of a completion's raw text, each a fixed piece of text:
\*   F  ```json            T  ```            w  a newline
\*   {  }  ,               the single characters
\*   a  "answer":"yes"     r  "rationale":"ok"
\*   c  "confidence":0.9   C  "confidence":7
\*   N  null
\*   ?  what is left of a longer token whose last character was cut off
RawTokens == {"F", "T", "w", "{", "}", ",", "a", "r", "c", "C", "N"}

SingleChar == {"w", "{", "}", ","}

Members == {"a", "r", "c", "C"}

\* A one-piece string as a text.
Str(x) == <<x>>

\* Index of the first token of s at or after position i that lies in S; 0 if none.
RECURSIVE FindFrom(_, _, _)
FindFrom(s, S, i) ==
    IF i > Len(s) THEN 0
    ELSE IF s[i] \in S THEN i
    ELSE FindFrom(s, S, i + 1)

\* Index of the last token of s that lies in S; 0 if none.
RECURSIVE RFind(_, _, _)
RFind(s, S, i) ==
    IF i < 1 THEN 0
    ELSE IF s[i] \in S THEN i
    ELSE RFind(s, S, i - 1)

\* Python slice s[:-1] of a text: its last character removed.
DropLastChar(s) ==
    IF s = <<>> THEN <<>>
    ELSE IF s[Len(s)] \in SingleChar THEN SubSeq(s, 1, Len(s) - 1)
    ELSE SubSeq(s, 1, Len(s) - 1) \o <<"?">>

\* str.strip() on a completion text, whose only whitespace token is "w".
RECURSIVE Strip2(_)
Strip2(s) ==
    IF s # <<>> /\ Head(s) = "w" THEN Strip2(Tail(s))
    ELSE IF s # <<>> /\ s[Len(s)] = "w" THEN Strip2(SubSeq(s, 1, Len(s) - 1))
    ELSE s

\* The text with its whitespace removed (JSON allows whitespace between any two
\* of these tokens).
RECURSIVE Unspaced(_)
Unspaced(s) ==
    IF s = <<>> THEN <<>>
    ELSE IF Head(s) = "w" THEN Unspaced(Tail(s))
    ELSE <<Head(s)>> \o Unspaced(Tail(s))

\* member ("," member)*
RECURSIVE IsMemberList(_)
IsMemberList(s) ==
    /\ s # <<>>
    /\ Head(s) \in Members
    /\ \/ Len(s) = 1
       \/ Len(s) >= 3 /\ s[2] = "," /\ IsMemberList(SubSeq(s, 3, Len(s)))

\* Whether json.loads accepts the text: the lone value null, or an object of
\* members.  Every other text over the tokens is a JSONDecodeError.
IsJsonObject(s) ==
    LET u == Unspaced(s)
    IN  /\ Len(u) >= 2
        /\ u[1] = "{"
        /\ u[Len(u)] = "}"
        /\ Len(u) = 2 \/ IsMemberList(SubSeq(u, 2, Len(u) - 1))

IsJsonNull(s) == Unspaced(s) = <<"N">>

\* The dict json.loads builds from an object: a later duplicate key replaces an
\* earlier one.  has: the keys present.  Confidence is in hundredths.
RECURSIVE LoadMembers(_, _)
LoadMembers(u, d) ==
    IF u = <<>> THEN d
    ELSE LoadMembers(Tail(u),
           CASE Head(u) = "a" -> [d EXCEPT !.has = @ \cup {"answer"}, !.answer = Str("yes")]
             [] Head(u) = "r" -> [d EXCEPT !.has = @ \cup {"rationale"}, !.rationale = Str("ok")]
             [] Head(u) = "c" -> [d EXCEPT !.has = @ \cup {"confidence"}, !.confidence = 90]
             [] Head(u) = "C" -> [d EXCEPT !.has = @ \cup {"confidence"}, !.confidence = 700]
             [] OTHER -> d)

EmptyDict ==
    [kind |-> "dict", has |-> {}, answer |-> <<>>, rationale |-> <<>>, confidence |-> 0]

\* A dict literal with the three keys.
Dict3(answer, rationale, confidence) ==
    [kind |-> "dict", has |-> {"answer", "rationale", "confidence"},
     answer |-> answer, rationale |-> rationale, confidence |-> confidence]

\* json.loads(json_str) when it succeeds.
json_loads(s) ==
    IF IsJsonNull(s) THEN [EmptyDict EXCEPT !.kind = "null"]
    ELSE LoadMembers(Unspaced(s), EmptyDict)

\* The substring _parse_response selects (lines 98..105); only called when one
\* of the two branches applies.
SelectJson(response) ==
    IF "F" \in {response[i] : i \in 1..Len(response)}
    THEN LET json_start == FindFrom(response, {"F"}, 1) + 1
             json_end == FindFrom(response, {"T", "F"}, json_start)
         IN  IF json_end = 0
             THEN Strip2(DropLastChar(SubSeq(response, json_start, Len(response))))
             ELSE Strip2(SubSeq(response, json_start, json_end - 1))
    ELSE SubSeq(response, FindFrom(response, {"{"}, 1), RFind(response, {"}"}, Len(response)))

_parse_response(response) ==
    LET toks == {response[i] : i \in 1..Len(response)}
    IN  IF "F" \notin toks /\ ~("{" \in toks /\ "}" \in toks)
        THEN Dict3(response, Str("Response could not be parsed as JSON"), 50)
        ELSE IF IsJsonNull(SelectJson(response)) \/ IsJsonObject(SelectJson(response))
        THEN json_loads(SelectJson(response))
        ELSE Dict3(response, Str("Response parsing failed"), 30)

\* parsed_response.get(key, default) on a dict.
Get(d, key, default) == IF key \in d.has THEN d[key] ELSE default

\* The caps of _build_context (clauses[:5]) and of relevant_clauses[:3].
ContextCap == 5
SupportCap == 3

\* _build_context: one part per clause of clauses[:5], "Clause <i+1> (Type: <type>):
\* <content>", joined by blank lines.
_build_context(clauses) ==
    [i \in 1..Min(ContextCap, Len(clauses)) |->
        [position |-> i, type |-> clauses[i].type, content |-> clauses[i].content]]

\* A completion call's outcome is the provider's: raw text, or a failure with a message.
GptFail(m) == [ok |-> FALSE, text |-> <<>>, msg |-> m]
GptOk(t) == [ok |-> TRUE, text |-> t, msg |-> ""]

\* A returned Decision, with the number of completion calls made on the way.
Decision(answer, rationale, clauses, confidence, calls) ==
    [raised |-> FALSE, answer |-> answer, rationale |-> rationale,
     relevant_clauses |-> clauses, confidence |-> confidence, gpt_calls |-> calls]

\* An exception leaving evaluate_decision.
Raised(message, calls) ==
    [raised |-> TRUE, answer |-> <<>>, rationale |-> message,
     relevant_clauses |-> <<>>, confidence |-> 0, gpt_calls |-> calls]

\* The except clause of evaluate_decision (lines 38..45); when catch is off the
\* exception leaves the function.
OnException(message, relevant_clauses, calls, catch) ==
    IF catch
    THEN Decision(Str("Error processing the question."),
                  <<"Technical error: ">> \o message,
                  IF relevant_clauses # <<>> THEN Prefix(relevant_clauses, SupportCap) ELSE <<>>,
                  0, calls)
    ELSE Raised(message, calls)

\* evaluate_decision, with the provider's outcome gpt for the completion call.
\* short: the empty-input return of lines 17..23 is there; catch: the except
\* clause is there; cap: the length of the relevant_clauses slice of line 34.
EvaluateCore(question, relevant_clauses, gpt, short, catch, cap) ==
    IF short /\ relevant_clauses = <<>>
    THEN Decision(Str("No relevant information found in the document."),
                  Str("The document does not contain information relevant to the question."),
                  <<>>, 0, 0)
    ELSE IF ~gpt.ok
    THEN OnException(<<"GPT-4 evaluation failed: ", gpt.msg>>, relevant_clauses, 1, catch)
    ELSE LET parsed_response == _parse_response(gpt.text)
         IN  IF parsed_response.kind # "dict"
             THEN OnException(Str("'NoneType' object has no attribute 'get'"),
                              relevant_clauses, 1, catch)
             ELSE Decision(Get(parsed_response, "answer", Str("Unable to determine answer.")),
                           Get(parsed_response, "rationale",
                               Str("Insufficient information to provide rationale.")),
                           Prefix(relevant_clauses, cap),
                           Get(parsed_response, "confidence", 50),
                           1)

\* Mutant: no early return for an empty ranking.
evaluate_decisionNoShortCircuit(question, relevant_clauses, gpt) ==
    EvaluateCore(question, relevant_clauses, gpt, FALSE, TRUE, SupportCap)

\* Mutant: no except clause.
evaluate_decisionNoCatch(question, relevant_clauses, gpt) ==
    EvaluateCore(question, relevant_clauses, gpt, TRUE, FALSE, SupportCap)

\* Mutant: the clauses shown to the model are returned (the cap of the context).
evaluate_decisionContextCap(question, relevant_clauses, gpt) ==
    EvaluateCore(question, relevant_clauses, gpt, TRUE, TRUE, ContextCap)

evaluate_decision(question, relevant_clauses, gpt) ==
    EvaluateCore(question, relevant_clauses, gpt, TRUE, TRUE, SupportCap)

(***************************************************************************)
(* main.py                                                                 *)
(***************************************************************************)

\* A header is a text over these tokens; the empty text stands for a missing
\* or empty header.
HeaderTokens == {"Bearer ", "default_token", "wrong"}

\* authorization.replace("Bearer ", "")
RECURSIVE WithoutBearer(_)
WithoutBearer(h) ==
    IF h = <<>> THEN <<>>
    ELSE IF Head(h) = "Bearer " THEN WithoutBearer(Tail(h))
    ELSE <<Head(h)>> \o WithoutBearer(Tail(h))

\* os.getenv("BEARER_TOKEN", "default_token"); the empty text stands for an
\* unset variable.
ExpectedToken(env) == IF env = <<>> THEN <<"default_token">> ELSE env

\* verify_token: TRUE when it returns the token, FALSE when it raises 401.
verify_token(h, env) ==
    /\ h # <<>>
    /\ Head(h) = "Bearer "
    /\ WithoutBearer(h) = ExpectedToken(env)

\* The dict run_query appends for a question (lines 69..75).
AnswerEntry(question, decision_result) ==
    [question |-> question,
     answer |-> decision_result.answer,
     rationale |-> decision_result.rationale,
     relevant_clauses |-> decision_result.relevant_clauses,
     confidence |-> decision_result.confidence]

\* An outcome standing for "no completion was asked for".
NoCompletion == GptFail("")

\* Whether evaluate_decision reaches its completion call (line 28).  The call is
\* made before its outcome exists, so the outcome passed here does not matter.
CallsCompletion(question, relevant_clauses) ==
    evaluate_decision(question, relevant_clauses, NoCompletion).gpt_calls > 0

\* Whether search_clauses makes an embedding call at all (line 26).
CallsEmbedding(question, document_data) ==
    search_clauses(question, document_data, EmbedFail, <<>>).embed_calls > 0

\* Whether search_clauses is finished once the outcomes got so far are in: a call
\* failed, or the question and every clause are embedded.
SearchFinished(got, document_data) ==
    \/ ~got[Len(got)].ok
    \/ Len(got) = 1 + Len(document_data.clauses)

(***************************************************************************)
(* Inputs.                                                                 *)
(***************************************************************************)

Questions == {"Is knee surgery covered?", "What is the waiting period?"}

\* The document of the end-to-end scenario:
\* "Section A covers knee surgery.\n\nSection B excludes maternity for 9 months."
ScenarioText == <<"A", "n", "n", "B">>

\* Document texts: the scenario, an empty text, and texts with one, two and
\* three retained sections.
SampleTexts ==
    {ScenarioText,
     <<>>,
     <<"M">>,
     <<"A", "s", "B", "n", "n", "L">>,
     <<"M", "n", "n", "A", "n", "n", "L">>,
     <<"M", "n", "n", "L", "n", "s", "n", "A", "B">>}

\* Documents: each sample text as one page, paragraph or text, and documents
\* of two and three pages or paragraphs.
SampleBodies ==
    {<<t>> : t \in SampleTexts}
    \cup {<<<<"A">>, <<"B">>>>, <<<<"M">>, <<>>, <<"L">>>>}

\* Urls, by the extensions that occur in them: "https://example.com/sample-policy.pdf",
\* ".../policy.docx", ".../policy.doc", ".../policy.txt", ".../policy.docx?v=.pdf".
SampleUrls == {{".pdf"}, {".docx", ".doc"}, {".doc"}, {}, {".pdf", ".docx", ".doc"}}

Headers == SeqsUpTo(HeaderTokens, MaxHeaderLen)

EnvTokens == {<<>>, <<"wrong">>}

\* Embedding vectors (components in tenths) a provider may return.
QuestionVectors == {<<10, 0>>, <<6, 8>>}
ClauseVectors == {<<10, 0>>, <<3, 0>>, <<0, 10>>, <<6, 8>>}

EmbedOutcomes == {EmbedFail} \cup {EmbedOk(v) : v \in QuestionVectors}

\* Completion outcomes of the request loop.
LoopGptOutcomes ==
    {GptFail("timeout"), GptOk(<<"{", "a", ",", "c", "}">>), GptOk(<<"N">>)}

\* A ranking of MaxRanked clauses, best first.
FullRanking ==
    [i \in 1..MaxRanked |->
        [id |-> i - 1, content |-> <<"M">>, length |-> 55, type |-> "condition",
         similarity_score |-> 100 - 5 * i, rank |-> i]]

\* The clauses of a three-section document.
ThreeClauses == _extract_clauses(<<"M", "n", "n", "L", "n", "n", "A", "B">>)

(***************************************************************************)
(* The request: verify_token and run_query.  A step runs the request's     *)
(* coroutine from one suspension (an awaited fetch, embedding call or      *)
(* completion call) to the next.                                           *)
(***************************************************************************)

\* The locals of a suspended iteration: which call is awaited, the embedding
\* outcomes received so far, and, at the completion call, the ranking.
NoFrame ==
    [awaiting |-> "nothing", got |-> <<>>, relevant_clauses |-> <<>>,
     provider_failed |-> FALSE]

\* The state of a request that has not begun, without its inputs.
Idle ==
    /\ frame = NoFrame
    /\ documents_content = NoDocument
    /\ answers = <<>>
    /\ http_status = 0
    /\ failed = <<>>
    /\ embedCalls = 0
    /\ gptCalls = 0

\* No request: the inputs of run_query when a single function is run.
NoRequest ==
    /\ authorization = <<>>
    /\ env_token = <<>>
    /\ url = {}
    /\ body = <<>>
    /\ questions = <<>>

Init ==
    /\ pc = "auth"
    /\ authorization \in Headers
    /\ env_token \in EnvTokens
    /\ url \in SampleUrls
    /\ body \in SampleBodies
    /\ questions \in SeqsUpTo(Questions, MaxQuestions)
    /\ text = <<>>
    /\ Idle
    /\ args = NONE
    /\ ret = NONE

\* Lines 35..46: the dependency verify_token; a rejected header ends the request
\* with status 401 before run_query runs.
VerifyToken ==
    /\ pc = "auth"
    /\ IF verify_token(authorization, env_token)
       THEN pc' = "start" /\ http_status' = http_status
       ELSE pc' = "done" /\ http_status' = 401
    /\ UNCHANGED <<authorization, env_token, url, body, text, questions, frame,
                   documents_content, answers, failed, embedCalls, gptCalls, args, ret>>

\* Line 62 up to the await of the fetch (document_processor.py lines 18, 33..38).
FetchDocument ==
    /\ pc = "start"
    /\ pc' = "await_fetch"
    /\ UNCHANGED <<authorization, env_token, url, body, text, questions, frame,
                   documents_content, answers, http_status, failed, embedCalls,
                   gptCalls, args, ret>>

\* What the rest of the iteration does once search_clauses has returned found:
\* an exception ends the request with status 500 (lines 79..82); a ranking that
\* makes evaluate_decision call the completion suspends there; otherwise
\* evaluate_decision returns and the entry is appended (lines 67..75).
AfterSearch(question, found) ==
    IF found.raised
    THEN /\ pc' = "done"
         /\ http_status' = 500
         /\ answers' = <<>>
         /\ frame' = NoFrame
         /\ UNCHANGED <<failed, gptCalls>>
    ELSE IF CallsCompletion(question, found.value)
    THEN /\ pc' = "await"
         /\ gptCalls' = gptCalls + 1
         /\ frame' = [awaiting |-> "completion", got |-> <<>>,
                      relevant_clauses |-> found.value,
                      provider_failed |-> found.provider_failed]
         /\ UNCHANGED <<answers, failed, http_status>>
    ELSE /\ pc' = "loop"
         /\ answers' = Append(answers,
                AnswerEntry(question, evaluate_decision(question, found.value, NoCompletion)))
         /\ failed' = Append(failed, found.provider_failed)
         /\ frame' = NoFrame
         /\ UNCHANGED <<gptCalls, http_status>>

\* What the iteration does once evaluate_decision has its completion outcome.
AfterCompletion(question, gpt) ==
    LET decision_result == evaluate_decision(question, frame.relevant_clauses, gpt)
    IN  /\ frame' = NoFrame
        /\ UNCHANGED <<gptCalls, embedCalls>>
        /\ IF decision_result.raised
           THEN /\ pc' = "done"
                /\ http_status' = 500
                /\ answers' = <<>>
                /\ UNCHANGED failed
           ELSE /\ pc' = "loop"
                /\ answers' = Append(answers, AnswerEntry(question, decision_result))
                /\ failed' = Append(failed, frame.provider_failed \/ ~gpt.ok)
                /\ UNCHANGED http_status

\* The fetch returns.  A failed fetch or a failed PDF or DOCX extraction is raised
\* as "Failed to process document" and ends the request at lines 79..82; otherwise
\* process_document returns and the loop begins.
ResumeFetch ==
    /\ pc = "await_fetch"
    /\ \E outcome \in {"ok", "fetch failed", "extraction failed"} :
         /\ outcome = "extraction failed" => _get_file_extension(url) # ".txt"
         /\ IF outcome = "ok"
            THEN /\ documents_content' = process_document(url, body)
                 /\ pc' = "loop"
                 /\ http_status' = http_status
            ELSE /\ documents_content' = documents_content
                 /\ pc' = "done"
                 /\ http_status' = 500
    /\ UNCHANGED <<authorization, env_token, url, body, text, questions, frame, answers,
                   failed, embedCalls, gptCalls, args, ret>>

\* Lines 65..66: the next iteration begins.  search_clauses either returns at
\* once (no clauses) or makes the embedding call of the question and suspends.
StartQuestion ==
    /\ pc = "loop"
    /\ Len(answers) < Len(questions)
    /\ LET question == questions[Len(answers) + 1]
       IN  IF CallsEmbedding(question, documents_content)
           THEN /\ pc' = "await"
                /\ embedCalls' = embedCalls + 1
                /\ frame' = [NoFrame EXCEPT !.awaiting = "embedding"]
                /\ UNCHANGED <<answers, failed, http_status, gptCalls>>
           ELSE /\ AfterSearch(question, search_clauses(question, documents_content,
                                                        EmbedFail, <<>>))
                /\ UNCHANGED embedCalls
    /\ UNCHANGED <<authorization, env_token, url, body, text, questions,
                   documents_content, args, ret>>

\* The awaited provider call returns.  An embedding outcome (semantic_search.py
\* lines 26, 55) either lets search_clauses go on to its next embedding call or
\* finishes it; a completion outcome (decision_engine.py line 28) finishes
\* evaluate_decision and the iteration.  (As _find_similar_clauses returns no
\* clause, see C3, a request never gets to the completion call.)
Resume ==
    /\ pc = "await"
    /\ LET question == questions[Len(answers) + 1]
       IN  IF frame.awaiting = "embedding"
           THEN \E e \in EmbedOutcomes :
                  LET got == Append(frame.got, e)
                  IN  IF SearchFinished(got, documents_content)
                      THEN /\ AfterSearch(question,
                                 search_clauses(question, documents_content,
                                                Head(got), Tail(got)))
                           /\ UNCHANGED embedCalls
                      ELSE /\ frame' = [frame EXCEPT !.got = got]
                           /\ embedCalls' = embedCalls + 1
                           /\ UNCHANGED <<pc, answers, failed, http_status, gptCalls>>
           ELSE \E gpt \in LoopGptOutcomes : AfterCompletion(question, gpt)
    /\ UNCHANGED <<authorization, env_token, url, body, text, questions,
                   documents_content, args, ret>>

\* Line 77: the response, once every question has its entry.
Return ==
    /\ pc = "loop"
    /\ Len(answers) = Len(questions)
    /\ pc' = "done"
    /\ http_status' = 200
    /\ UNCHANGED <<authorization, env_token, url, body, text, questions, frame,
                   documents_content, answers, failed, embedCalls, gptCalls, args, ret>>

Next == VerifyToken \/ FetchDocument \/ ResumeFetch \/ StartQuestion \/ Resume \/ Return

Spec == Init /\ [][Next]_vars

(***************************************************************************)
(* _extract_clauses on bounded texts.                                      *)
(***************************************************************************)

Texts == SeqsUpTo(TextTokens, MaxTextLen) \cup SampleTexts

InitSegment ==
    /\ pc = "segment"
    /\ text \in Texts
    /\ NoRequest
    /\ Idle
    /\ args = NONE
    /\ ret = NONE

Segment ==
    /\ pc = "segment"
    /\ ret' = _extract_clauses(text)
    /\ pc' = "done"
    /\ UNCHANGED <<authorization, env_token, url, body, text, questions, frame,
                   documents_content, answers, http_status, failed, embedCalls,
                   gptCalls, args>>

NextSegment == Segment

SpecSegment == InitSegment /\ [][NextSegment]_vars

(***************************************************************************)
(* _find_similar_clauses on bounded embeddings.                            *)
(***************************************************************************)

InitRank ==
    /\ pc = "rank"
    /\ text = <<>>
    /\ NoRequest
    /\ Idle
    /\ \E q \in QuestionVectors, ces \in SeqsUpTo(ClauseVectors, MaxClauses) :
         args = [question_embedding |-> q,
                 clause_embeddings |-> ces,
                 clauses |-> Prefix(ThreeClauses, Len(ces))]
    /\ ret = NONE

\* _find_similar_clauses awaits nothing: it runs in one step.
Rank ==
    /\ pc = "rank"
    /\ ret' = _find_similar_clauses(args.question_embedding, args.clause_embeddings,
                                    args.clauses)
    /\ pc' = "done"
    /\ UNCHANGED <<authorization, env_token, url, body, text, questions, frame,
                   documents_content, answers, http_status, failed, embedCalls,
                   gptCalls, args>>

NextRank == Rank

SpecRank == InitRank /\ [][NextRank]_vars

(***************************************************************************)
(* _parse_response on bounded completion texts.                            *)
(***************************************************************************)

InitParse ==
    /\ pc = "parse"
    /\ text = <<>>
    /\ NoRequest
    /\ Idle
    /\ \E raw \in SeqsUpTo(RawTokens, MaxRawLen) : args = [response |-> raw]
    /\ ret = NONE

Parse ==
    /\ pc = "parse"
    /\ ret' = _parse_response(args.response)
    /\ pc' = "done"
    /\ UNCHANGED <<authorization, env_token, url, body, text, questions, frame,
                   documents_content, answers, http_status, failed, embedCalls,
                   gptCalls, args>>

NextParse == Parse

SpecParse == InitParse /\ [][NextParse]_vars

(***************************************************************************)
(* evaluate_decision on bounded rankings and completion outcomes, with the *)
(* entry run_query builds from its result.                                 *)
(***************************************************************************)

DecideGptOutcomes ==
    {GptFail("timeout"), GptFail("rate limit")}
    \cup {GptOk(raw) : raw \in SeqsUpTo(RawTokens, MaxDecideRawLen)}

\* args.gpt is the outcome of the completion call once it has returned.
InitDecide ==
    /\ pc = "decide"
    /\ text = <<>>
    /\ NoRequest
    /\ Idle
    /\ \E q \in Questions, k \in 0..MaxRanked :
         args = [question |-> q, relevant_clauses |-> Prefix(FullRanking, k),
                 gpt |-> NoCompletion]
    /\ ret = NONE

\* evaluate_decision up to its completion call, where it suspends; for an input
\* that makes it return without one, the whole of it.
Decide ==
    /\ pc = "decide"
    /\ IF CallsCompletion(args.question, args.relevant_clauses)
       THEN /\ pc' = "await"
            /\ gptCalls' = gptCalls + 1
            /\ UNCHANGED <<ret, answers>>
       ELSE LET decision_result ==
                    evaluate_decision(args.question, args.relevant_clauses, NoCompletion)
            IN  /\ pc' = "done"
                /\ ret' = decision_result
                /\ answers' = Append(answers, AnswerEntry(args.question, decision_result))
                /\ UNCHANGED gptCalls
    /\ UNCHANGED <<authorization, env_token, url, body, text, questions, frame,
                   documents_content, http_status, failed, embedCalls, args>>

\* The completion call returns (line 28): the rest of evaluate_decision, and the
\* entry of run_query when it returned a Decision.
ResumeDecide ==
    /\ pc = "await"
    /\ \E g \in DecideGptOutcomes :
         LET decision_result == evaluate_decision(args.question, args.relevant_clauses, g)
         IN  /\ args' = [args EXCEPT !.gpt = g]
             /\ ret' = decision_result
             /\ answers' = IF decision_result.raised THEN answers
                           ELSE Append(answers, AnswerEntry(args.question, decision_result))
    /\ pc' = "done"
    /\ UNCHANGED <<authorization, env_token, url, body, text, questions, frame,
                   documents_content, http_status, failed, embedCalls, gptCalls>>

NextDecide == Decide \/ ResumeDecide

SpecDecide == InitDecide /\ [][NextDecide]_vars

(***************************************************************************)
(* Properties of the request loop (Spec).                                  *)
(***************************************************************************)

NoInformation == Str("No relevant information found in the document.")

\* The entries built so far belong, in order, to the first questions, and an
\* entry of a question with a failed provider call has confidence 0; once the
\* document is there the request cannot end in an error, and it ends with one
\* entry per question.
C1_Entries ==
    documents_content.type # "none" =>
        /\ http_status # 500
        /\ Len(answers) <= Len(questions)
        /\ Len(failed) = Len(answers)
        /\ \A i \in 1..Len(answers) :
             /\ answers[i].question = questions[i]
             /\ failed[i] => answers[i].confidence = 0
        /\ pc = "done" => http_status = 200 /\ Len(answers) = Len(questions)

\* A step never removes or changes an entry already built.
C1_Kept ==
    \A i \in 1..Len(answers) : i <= Len(answers') /\ answers'[i] = answers[i]

\* C1: when the document was fetched and extracted, run_query returns exactly one
\* entry per question, in the order of the questions, whatever embedding and
\* completion calls fail; a question with a failed call gets confidence 0.0, and
\* a failure in one question never removes or changes the entries of the others.
C1_OneEntryPerQuestion == [](C1_Entries) /\ [][C1_Kept]_vars

\* A finished request of two questions over a document with clauses, where an
\* embedding call of the first question failed and none of the second did.
C1_Witness ==
    /\ pc = "done"
    /\ http_status = 200
    /\ documents_content.clauses # <<>>
    /\ Len(questions) = 2
    /\ Len(answers) = 2
    /\ failed = <<TRUE, FALSE>>
    /\ embedCalls = 2 + (1 + Len(documents_content.clauses))

\* The request's document holds the text of the scenario (as a text file, or as
\* the one page of a PDF or the one paragraph of a DOCX).
IsScenario == body = <<ScenarioText>>

\* C10 as stated: for the scenario document and the question "Is knee surgery
\* covered?", with no provider failure, the relevant clauses hold a coverage
\* clause for Section A ranked above an exclusion clause for Section B.
C10_Original ==
    (/\ pc = "done"
     /\ http_status = 200
     /\ IsScenario
     /\ Len(answers) >= 1
     /\ answers[1].question = "Is knee surgery covered?"
     /\ ~failed[1])
    => LET rc == answers[1].relevant_clauses
       IN  \E i, j \in 1..Len(rc) :
             /\ i < j
             /\ rc[i].type = "coverage" /\ rc[i].content = <<"A">>
             /\ rc[j].type = "exclusion" /\ rc[j].content = <<"B">>

\* C10, amended: both sections of the scenario document are at most 50 characters
\* long, so segmentation keeps no clause; no embedding or completion call is made
\* and every question gets the fixed no-information entry with no relevant
\* clauses and confidence 0.0.
C10_ScenarioHasNoClauses ==
    (IsScenario /\ documents_content.type # "none") =>
        /\ documents_content.clauses = <<>>
        /\ embedCalls = 0
        /\ gptCalls = 0
        /\ pc # "await"
        /\ \A i \in 1..Len(answers) :
             /\ answers[i].relevant_clauses = <<>>
             /\ answers[i].answer = NoInformation
             /\ answers[i].confidence = 0

\* The scenario request for a PDF, finished, with the scenario's question answered.
C10_Witness ==
    /\ pc = "done"
    /\ http_status = 200
    /\ IsScenario
    /\ documents_content.type = "pdf"
    /\ documents_content.content = ScenarioText \o <<"n">>
    /\ Len(answers) >= 1
    /\ answers[1].question = "Is knee surgery covered?"
    /\ answers[1].answer = NoInformation

(***************************************************************************)
(* Properties of _extract_clauses (SpecSegment).                           *)
(***************************************************************************)

\* C9 as stated: the ids of the returned clauses are clause_0 .. clause_{n-1}.
C9_Original ==
    pc = "done" => \A k \in 1..Len(ret) : ret[k].id = k - 1

\* C9, amended: a retained section gets the id clause_i where i is its position
\* among all the sections of the split, discarded ones included; the ids are
\* unique and increase in document order (with a gap wherever a discarded
\* section precedes a retained one).
C9_IdsAreSectionIndices ==
    pc = "done" =>
        LET secs == re_split(text)
            kept == {i \in 0..(Len(secs) - 1) : TextLen(Strip(secs[i + 1])) > 50}
        IN  /\ Len(ret) = Cardinality(kept)
            /\ {ret[k].id : k \in 1..Len(ret)} = kept
            /\ \A k, l \in 1..Len(ret) : k < l => ret[k].id < ret[l].id
            /\ \A k \in 1..Len(ret) : ret[k].content = Strip(secs[ret[k].id + 1])

\* Two retained sections with a discarded one between them.
C9_Witness ==
    /\ pc = "done"
    /\ Len(ret) = 2
    /\ ret[1].id = 0
    /\ ret[2].id = 2

(***************************************************************************)
(* Properties of _find_similar_clauses (SpecRank).                         *)
(***************************************************************************)

\* C3: the result holds exactly the clauses that are among the min(5, n) most
\* similar and whose similarity exceeds 0.3 (none for an empty clause set).
C3_TopKAboveThreshold ==
    pc = "done" =>
        LET n == Len(args.clauses)
            sim(i) == InnerProduct(args.question_embedding, args.clause_embeddings[i])
            above == {i \in 1..n : sim(i) > 30}
            got == {c \in 1..n : \E k \in 1..Len(ret) : ret[k].id = args.clauses[c].id}
        IN  /\ got \subseteq above
            /\ Len(ret) = Cardinality(got)
            /\ Cardinality(got) = IF Cardinality(above) < 5 THEN Cardinality(above) ELSE 5
            /\ \A c \in got, d \in above \ got : sim(c) >= sim(d)

(***************************************************************************)
(* Properties of _parse_response (SpecParse).                              *)
(***************************************************************************)

\* What C8 says of a selected substring: parsed when valid JSON, else the 0.3 fallback.
ParseSelected(response, selected) ==
    IF IsJsonNull(selected) \/ IsJsonObject(selected)
    THEN json_loads(selected)
    ELSE Dict3(response, Str("Response parsing failed"), 30)

\* The strategies of C8 after the fenced one: the span from the first "{" to the
\* last "}", else the 0.5 fallback.
ParseUnfenced(response) ==
    LET toks == {response[i] : i \in 1..Len(response)}
    IN  IF "{" \in toks /\ "}" \in toks
        THEN ParseSelected(response,
                 SubSeq(response, FindFrom(response, {"{"}, 1),
                        RFind(response, {"}"}, Len(response))))
        ELSE Dict3(response, Str("Response could not be parsed as JSON"), 50)

\* C8 with a fenced block being an opening tag and the text up to the next fence,
\* or up to the end of the text when no fence follows.
ParseAsClaimedOpen(response) ==
    LET open == FindFrom(response, {"F"}, 1)
        close == FindFrom(response, {"T", "F"}, open + 1)
    IN  IF open = 0 THEN ParseUnfenced(response)
        ELSE ParseSelected(response,
                 SubSeq(response, open + 1, IF close = 0 THEN Len(response) ELSE close - 1))

\* C8 with a fenced block being an opening tag that a later fence closes; an
\* unclosed tag leaves the text to the other strategies.
ParseAsClaimedClosed(response) ==
    LET open == FindFrom(response, {"F"}, 1)
        close == FindFrom(response, {"T", "F"}, open + 1)
    IN  IF open = 0 \/ close = 0 THEN ParseUnfenced(response)
        ELSE ParseSelected(response, SubSeq(response, open + 1, close - 1))

\* C8: for every raw text the result is that of the first applicable strategy:
\* the interior of a fenced JSON block, else the span from the first "{" to the
\* last "}", else the 0.5 fallback; a selected substring that is not valid JSON
\* gives the 0.3 fallback.  (Under either reading of a fenced block.)
C8_StrategyPrecedence ==
    pc = "done" =>
        \/ ret = ParseAsClaimedOpen(args.response)
        \/ ret = ParseAsClaimedClosed(args.response)

(***************************************************************************)
(* Properties of evaluate_decision (SpecDecide).                           *)
(***************************************************************************)

\* C2: evaluate_decision always returns a Decision; when the completion call
\* fails for a non-empty ranking it is the error Decision, whose rationale is
\* "Technical error: " followed by the failure's message, with confidence 0.0 and
\* the first 3 ranked clauses; a completion that parses to a non-object ends in a
\* returned Decision too, and run_query builds its entry from it.
C2_NeverRaises ==
    pc = "done" =>
        /\ ~ret.raised
        /\ Len(answers) = 1
        /\ (args.relevant_clauses # <<>> /\ ~args.gpt.ok) =>
             /\ gptCalls = 1
             /\ ret.answer = Str("Error processing the question.")
             /\ ret.rationale = <<"Technical error: ", "GPT-4 evaluation failed: ", args.gpt.msg>>
             /\ ret.confidence = 0
             /\ Len(ret.relevant_clauses) =
                  (IF Len(args.relevant_clauses) < 3 THEN Len(args.relevant_clauses) ELSE 3)
             /\ \A i \in 1..Len(ret.relevant_clauses) :
                  ret.relevant_clauses[i] = args.relevant_clauses[i]

\* The completion call failed for a ranking of more than 3 clauses.
C2_Witness ==
    /\ pc = "done"
    /\ gptCalls = 1
    /\ Len(args.relevant_clauses) > 3
    /\ ~args.gpt.ok
    /\ ret.answer = Str("Error processing the question.")

\* C5: for an empty ranking evaluate_decision returns the fixed Decision and the
\* completion capability is not invoked.
C5_EmptyShortCircuit ==
    args.relevant_clauses = <<>> =>
        /\ gptCalls = 0
        /\ pc # "await"
        /\ pc = "done" =>
             /\ ~ret.raised
             /\ ret.answer = Str("No relevant information found in the document.")
             /\ ret.rationale =
                  Str("The document does not contain information relevant to the question.")
             /\ ret.relevant_clauses = <<>>
             /\ ret.confidence = 0

\* An empty ranking was evaluated: the fixed Decision is there and its entry built.
C5_Witness ==
    /\ pc = "done"
    /\ args.relevant_clauses = <<>>
    /\ gptCalls = 0
    /\ Len(answers) = 1
    /\ answers[1].answer = NoInformation

\* C6: on every return path the supporting clauses are the first
\* min(3, len(ranked_clauses)) input clauses in their order, and run_query
\* forwards them unchanged as relevant_clauses.
C6_SupportingPrefix ==
    pc = "done" =>
        LET rc == ret.relevant_clauses
            n == Len(args.relevant_clauses)
        IN  /\ Len(rc) = IF n < 3 THEN n ELSE 3
            /\ \A i \in 1..Len(rc) : rc[i] = args.relevant_clauses[i]
            /\ Len(answers) = 1
            /\ answers[1].relevant_clauses = rc

\* A completion parsed with success for a ranking longer than the context's cap.
C6_Witness ==
    /\ pc = "done"
    /\ Len(args.relevant_clauses) > 5
    /\ args.gpt.ok
    /\ ret.answer = Str("yes")
    /\ Len(ret.relevant_clauses) = 3

\* C7: the confidence of every returned Decision lies in [0, 1].
C7_ConfidenceInUnitInterval ==
    pc = "done" => (ret.confidence >= 0 /\ ret.confidence <= 100)

====
